---- MODULE Spec2Model ----
(***************************************************************************)
(* Model of the x86 block and function assembler of mewmew/x:              *)
(* decodeBlocks, decodeInst, isTerm and decodeFuncs, run by liftCode /     *)
(* decodeCodeSection on one code section with the oracle address lists of  *)
(* the lifter (funcAddrs, blockAddrs, chunks).                             *)
(*                                                                         *)
(* Addr is uint32 in the source.  The model keeps the modular arithmetic   *)
(* of Addr at a reduced width: addresses are 0..MaxUint32 and every sum    *)
(* and difference is taken modulo MaxUint32 + 1.                           *)
(***************************************************************************)
EXTENDS Integers, Sequences, FiniteSets, TLC

\* ---------------------------------------------------------------- bounds

\* Largest address of the model's address space.
AddrMax == 3
\* Largest number of block addresses decoded from a varied section.
MaxBlocks == 2
\* Largest size of the oracle (function addresses + block addresses +
\* chunk entries) assembled over the fixed section image.
MaxOracle == 5

\* Number of bits of an address where addresses are formatted and parsed.
AddrBits == 8

\* ------------------------------------------------------------- addresses

MaxUint32 == AddrMax

Addr == 0..MaxUint32

\* Addr + Addr(n), as uint32 addition.
AddrAdd(a, n) == (a + n) % (MaxUint32 + 1)

\* int(a - b), a uint32 subtraction converted to a (64-bit) int.
AddrSub(a, b) == (a - b + MaxUint32 + 1) % (MaxUint32 + 1)

\* Addrs.Less
Less(a, b) == a < b

RECURSIVE Insert(_, _)
Insert(s, x) ==
    IF s = <<>> THEN <<x>>
    ELSE IF Less(x, s[1]) THEN <<x>> \o s
    ELSE <<s[1]>> \o Insert(Tail(s), x)

\* A plausible slip: the address list is used in file order.
SortAddrsMissing(s) == s

\* sort.Sort(l.funcAddrs), sort.Sort(l.blockAddrs)
RECURSIVE SortAddrs(_)
SortAddrs(s) ==
    IF s = <<>> THEN <<>>
    ELSE Insert(SortAddrs(SubSeq(s, 1, Len(s) - 1)), s[Len(s)])

\* ------------------------------------------------------------------ maps

\* make(map[Addr]...)
EmptyMap == [x \in {} |-> 0]

\* m[k] = v
MapPut(m, k, v) == [x \in (DOMAIN m) \cup {k} |-> IF x = k THEN v ELSE m[x]]

\* ---------------------------------------------------------- instructions

\* A plausible slip: CALL, which transfers control too, is taken for a
\* terminator.
TermOpsWithCall ==
    {"LOOP", "LOOPE", "LOOPNE",
     "JA", "JAE", "JB", "JBE", "JCXZ", "JE", "JECXZ", "JG", "JGE", "JL",
     "JLE", "JNE", "JNO", "JNP", "JNS", "JO", "JP", "JRCXZ", "JS",
     "JMP", "CALL",
     "RET"}

\* The opcodes isTerm answers true for.
TermOps ==
    {"LOOP", "LOOPE", "LOOPNE",
     "JA", "JAE", "JB", "JBE", "JCXZ", "JE", "JECXZ", "JG", "JGE", "JL",
     "JLE", "JNE", "JNO", "JNP", "JNS", "JO", "JP", "JRCXZ", "JS",
     "JMP",
     "RET"}

\* isTerm reports whether the given instruction is a terminator.
isTerm(inst) == inst.op \in TermOps

\* The byte values of a section: the first byte of a one-byte NOP, of a
\* one-byte RET, of a two-byte MOV (opcode byte + immediate byte), and a
\* byte no instruction starts with.  Any byte may stand as an immediate.
Bytes == {"nop", "ret", "mov", "bad"}

ByteOp(b) == CASE b = "nop" -> "NOP" [] b = "ret" -> "RET" [] b = "mov" -> "MOV" [] OTHER -> "NONE"

ByteLen(b) == IF b = "mov" THEN 2 ELSE 1

\* x86asm.Decode(src, cpuMode): one instruction from the head of src, or an
\* error when src is empty, starts with no instruction, or is cut short.
Decode(src) ==
    IF src = <<>> \/ src[1] = "bad" \/ ByteLen(src[1]) > Len(src)
    THEN [ok |-> FALSE, op |-> "NONE", len |-> 0]
    ELSE [ok |-> TRUE, op |-> ByteOp(src[1]), len |-> ByteLen(src[1])]

\* decodeInst: the decoded instruction annotated with instAddr, or an error.
decodeInst(a, src) ==
    LET r == Decode(src) IN
    [ok |-> r.ok, inst |-> [addr |-> a, op |-> r.op, len |-> r.len]]

\* BasicBlock.Entry
Entry(b) == b[1].addr

\* newFunc
newFunc(entry) == [entry |-> entry, blocks |-> EmptyMap]

\* ---------------------------------------------------------------- state

VARIABLES
    funcAddrs,      \* l.funcAddrs
    blockAddrs,     \* l.blockAddrs
    chunks,         \* l.chunks: block address -> set of function addresses
    start,          \* address of the section
    data,           \* bytes of the section
    pc,             \* position in liftCode / decodeBlocks / decodeFuncs
    j,              \* decodeBlocks: index of the block address (1-based)
    instAddr,       \* decodeBlocks: instruction cursor
    block,          \* decodeBlocks: instructions of the block being built
    blocks,         \* decodeBlocks: blocks built so far
    retBlocks,      \* blocks returned by decodeBlocks (<<>> is nil)
    i,              \* decodeFuncs: index of the function address (1-based)
    fj,             \* decodeFuncs: cursor j into the blocks (1-based)
    f,              \* decodeFuncs: function being filled
    funcs,          \* decodeFuncs: functions built so far
    funcFromAddr,   \* decodeFuncs: entry -> index into funcs
    blockFromAddr,  \* decodeFuncs: entry -> index into the blocks
    chunkTodo,      \* keys of chunks the outer range has not yet visited
    chunkAddr,      \* blockAddr of the outer range over chunks
    funcTodo,       \* keys of the chunk the inner range has not yet visited
    retFuncs,       \* functions returned by decodeFuncs (<<>> is nil)
    err,            \* error returned, "nil" when none
    arg,            \* argument of a function called on its own
    res,            \* what that function returned: <<>> before the call, <<v>> after
    files,          \* what parseJSON found of funcs.json, blocks.json, chunks.json
    peState,        \* the PE file: "unopened", "open-failed", "open", "closed"
    bin,            \* the PE file as pe.Open parsed it
    sect,           \* lift: index of the section (1-based)
    dataRead,       \* the sections whose Data() lift has called, in order
    decoded,        \* the sections lift has passed to decodeCodeSection, in order
    asmFuncs        \* l.asmFuncs (<<>> is nil)

\* The variables of main, newLifter and lift.
liftVars == <<files, peState, bin, sect, dataRead, decoded, asmFuncs>>

\* The variables outside liftCode.
extVars == <<arg, res, liftVars>>

vars == <<funcAddrs, blockAddrs, chunks, start, data, pc, j, instAddr, block,
          blocks, retBlocks, i, fj, f, funcs, funcFromAddr, blockFromAddr,
          chunkTodo, chunkAddr, funcTodo, retFuncs, err, extVars>>

oracle == <<funcAddrs, blockAddrs, chunks, start, data>>
dbLocals == <<j, instAddr, block, blocks>>
dfLocals == <<i, fj, f, funcs, funcFromAddr>>
chLocals == <<blockFromAddr, chunkTodo, chunkAddr, funcTodo>>

\* ---------------------------------------------------------------- inputs

\* The size of a chunks map: its block addresses plus the function
\* addresses it names under them.
RECURSIVE ChunkSize(_, _)
ChunkSize(c, D) ==
    IF D = {} THEN 0
    ELSE LET d == CHOOSE x \in D : TRUE
         IN 1 + Cardinality(c[d]) + ChunkSize(c, D \ {d})

\* The chunks maps of at most MaxOracle entries.
ChunkMaps ==
    {c \in UNION {[D -> {S \in SUBSET Addr : Cardinality(D) + Cardinality(S) <= MaxOracle}] :
                    D \in SUBSET Addr} :
        ChunkSize(c, DOMAIN c) <= MaxOracle}

\* The sections: a PE section holds at most MaxUint32 bytes (its size is
\* a uint32), so the bytes of a section never cover the address space.
Sections == UNION {[1..nd -> Bytes] : nd \in 0..MaxUint32}

\* A section image at address 1 that reaches the largest address: NOPs
\* closed by a RET, so that a block decodes at every address but 0.
FullImage == [k \in 1..MaxUint32 |-> IF k = MaxUint32 THEN "ret" ELSE "nop"]

\* The PE file before pe.Open.
NoBin == [hdr |-> "none", base |-> 0, sections |-> <<>>]

\* The oracle files before parseJSON.
NoFiles == [funcs |-> "unread", blocks |-> "unread", chunks |-> "unread"]

\* main, newLifter and lift have not run.
InitNoLift ==
    /\ files = NoFiles
    /\ peState = "unopened"
    /\ bin = NoBin
    /\ sect = 1
    /\ dataRead = <<>>
    /\ decoded = <<>>
    /\ asmFuncs = <<>>

\* Nothing outside liftCode takes part in a run of liftCode.
InitExt ==
    /\ arg = 0
    /\ res = <<>>
    /\ InitNoLift

\* The locals of decodeBlocks and decodeFuncs before liftCode runs.
InitLocals ==
    /\ pc = "decodeBlocks"
    /\ j = 1
    /\ instAddr = 0
    /\ block = <<>>
    /\ blocks = <<>>
    /\ retBlocks = <<>>
    /\ i = 1
    /\ fj = 1
    /\ f = newFunc(0)
    /\ funcs = <<>>
    /\ funcFromAddr = EmptyMap
    /\ blockFromAddr = EmptyMap
    /\ chunkTodo = {}
    /\ chunkAddr = 0
    /\ funcTodo = {}
    /\ retFuncs = <<>>
    /\ err = "nil"
    /\ InitExt

\* newLifter on block addresses only, and a section of any start address
\* and any bytes.
InitSection ==
    /\ \E nb \in 0..MaxBlocks : \E rb \in [1..nb -> Addr] :
          blockAddrs = SortAddrs(rb)
    /\ funcAddrs = SortAddrs(<<>>)
    /\ chunks = EmptyMap
    /\ start \in Addr
    /\ data \in Sections
    /\ InitLocals

\* newLifter on any oracle of at most MaxOracle entries, and the section
\* image that decodes at every address but 0.
InitOracle ==
    /\ \E c \in ChunkMaps :
       \E nf \in 0..(MaxOracle - ChunkSize(c, DOMAIN c)) :
       \E nb \in 0..(MaxOracle - ChunkSize(c, DOMAIN c) - nf) :
       \E rf \in [1..nf -> Addr] :
       \E rb \in [1..nb -> Addr] :
          /\ chunks = c
          /\ funcAddrs = SortAddrs(rf)
          /\ blockAddrs = SortAddrs(rb)
    /\ start = 1
    /\ data = FullImage
    /\ InitLocals

Init == InitSection \/ InitOracle

\* newLifter on two functions and three blocks, the last block at the
\* largest address, and any chunks map of at most MaxOracle entries, over
\* the section image that decodes at every address but 0.
InitChunks ==
    /\ funcAddrs = SortAddrs(<<2, 1>>)
    /\ blockAddrs = SortAddrs(<<MaxUint32, 2, 1>>)
    /\ chunks \in ChunkMaps
    /\ start = 1
    /\ data = FullImage
    /\ InitLocals

\* ---------------------------------------------------------- decodeBlocks

\* A plausible slip: a block after the first is decoded from where the
\* previous block stopped.
InitInstAddrContinue(jj) == IF jj = 1 THEN blockAddrs[jj] ELSE instAddr

\* instAddr := blockAddr
InitInstAddr(jj) == blockAddrs[jj]

\* A plausible slip: the cursor moves on by one byte whatever the length.
NextInstAddrOne(a, inst) == AddrAdd(a, 1)

\* A plausible slip: the cursor is not moved.
NextInstAddrStay(a, inst) == a

\* instAddr += Addr(inst.Len)
NextInstAddr(a, inst) == AddrAdd(a, inst.len)

\* A plausible slip: > in place of >=.
EndOfBlockStrict(inst, next, jj) ==
    isTerm(inst) \/ (jj < Len(blockAddrs) /\ next > blockAddrs[jj + 1])

\* isTerm(inst) || (j+1 < len(l.blockAddrs) && instAddr >= l.blockAddrs[j+1])
EndOfBlock(inst, next, jj) ==
    isTerm(inst) \/ (jj < Len(blockAddrs) /\ next >= blockAddrs[jj + 1])

\* A plausible slip: only a block closed by a terminator is kept.
AppendBlockTermOnly(bs, b) == IF isTerm(b[Len(b)]) THEN Append(bs, b) ELSE bs

\* blocks = append(blocks, block)
AppendBlock(bs, b) == Append(bs, b)

\* for j, blockAddr := range l.blockAddrs: the next block address, or the
\* return of the blocks to liftCode, which hands them to decodeFuncs.
BlocksLoop ==
    /\ pc = "decodeBlocks"
    /\ IF j <= Len(blockAddrs)
       THEN /\ block' = <<>>
            /\ instAddr' = InitInstAddr(j)
            /\ pc' = "decodeInst"
            /\ UNCHANGED <<j, blocks, retBlocks>>
       ELSE /\ retBlocks' = blocks
            /\ pc' = "decodeFuncs"
            /\ UNCHANGED <<j, instAddr, block, blocks>>
    /\ UNCHANGED <<oracle, dfLocals, chLocals, retFuncs, err>>
    /\ UNCHANGED extVars

\* One turn of the instruction loop of decodeBlocks.
DecodeInstStep ==
    /\ pc = "decodeInst"
    /\ LET offset == AddrSub(instAddr, start) IN
       IF offset > Len(data)
       THEN \* data[offset:] with offset past len(data): a run-time panic
            /\ pc' = "panic"
            /\ UNCHANGED <<dbLocals, retBlocks, err>>
       ELSE LET r == decodeInst(instAddr, SubSeq(data, offset + 1, Len(data))) IN
            IF ~r.ok
            THEN /\ err' = "decode-failure"
                 /\ retBlocks' = <<>>
                 /\ pc' = "done"
                 /\ UNCHANGED dbLocals
            ELSE LET next == NextInstAddr(instAddr, r.inst)
                     b == Append(block, r.inst)
                 IN /\ instAddr' = next
                    /\ block' = b
                    /\ IF EndOfBlock(r.inst, next, j)
                       THEN /\ blocks' = AppendBlock(blocks, b)
                            /\ j' = j + 1
                            /\ pc' = "decodeBlocks"
                       ELSE UNCHANGED <<blocks, j, pc>>
                    /\ UNCHANGED <<retBlocks, err>>
    /\ UNCHANGED <<oracle, dfLocals, chLocals, retFuncs>>
    /\ UNCHANGED extVars

\* ----------------------------------------------------------- decodeFuncs

\* start := funcAddr
FuncStart(ii) == funcAddrs[ii]

\* A plausible slip: the window of every function is left open-ended.
FuncEndOpen(ii) == MaxUint32

\* end := Addr(math.MaxUint32); if i+1 < len(l.funcAddrs) { end = l.funcAddrs[i+1] }
FuncEnd(ii) == IF ii < Len(funcAddrs) THEN funcAddrs[ii + 1] ELSE MaxUint32

\* A plausible slip: the check of the window's lower end is lost.
BeforeStartNever(blockAddr, startAddr) == FALSE

\* A plausible slip: <= in place of <.
BeforeStartInclusive(blockAddr, startAddr) == blockAddr <= startAddr

\* if blockAddr < start
BeforeStart(blockAddr, startAddr) == blockAddr < startAddr

\* A plausible slip: the functions built so far are returned with the error.
ErrorReturnFuncs(fs) == fs

\* return nil, errors.Errorf(...)
ErrorReturn(fs) == <<>>

\* for i, funcAddr := range l.funcAddrs: the next function address, or the
\* end of the contiguous phase.
FuncsLoop ==
    /\ pc = "decodeFuncs"
    /\ IF i <= Len(funcAddrs)
       THEN /\ f' = newFunc(funcAddrs[i])
            /\ pc' = "assign"
       ELSE /\ pc' = "chunks"
            /\ UNCHANGED f
    /\ UNCHANGED <<oracle, dbLocals, retBlocks, i, fj, funcs, funcFromAddr,
                   chLocals, retFuncs, err>>
    /\ UNCHANGED extVars

\* One turn of for _, block := range blocks[j:], and what follows the loop.
AssignStep ==
    /\ pc = "assign"
    /\ IF fj > Len(retBlocks) \/ Entry(retBlocks[fj]) >= FuncEnd(i)
       THEN \* the range is exhausted, or break
            /\ funcs' = Append(funcs, f)
            /\ funcFromAddr' = MapPut(funcFromAddr, f.entry, Len(funcs) + 1)
            /\ i' = i + 1
            /\ pc' = "decodeFuncs"
            /\ UNCHANGED <<fj, f, retFuncs, err>>
       ELSE IF BeforeStart(Entry(retBlocks[fj]), FuncStart(i))
       THEN /\ err' = "block-before-function-start"
            /\ retFuncs' = ErrorReturn(funcs)
            /\ pc' = "done"
            /\ UNCHANGED <<i, fj, f, funcs, funcFromAddr>>
       ELSE /\ f' = [f EXCEPT !.blocks = MapPut(@, Entry(retBlocks[fj]), fj)]
            /\ fj' = fj + 1
            /\ UNCHANGED <<i, funcs, funcFromAddr, pc, retFuncs, err>>
    /\ UNCHANGED <<oracle, dbLocals, retBlocks, chLocals>>
    /\ UNCHANGED extVars

\* blockFromAddr[block.Entry()] = block, for the blocks in order.
RECURSIVE BuildBlockFromAddr(_, _)
BuildBlockFromAddr(bs, n) ==
    IF n = 0 THEN EmptyMap
    ELSE MapPut(BuildBlockFromAddr(bs, n - 1), Entry(bs[n]), n)

\* if len(l.chunks) > 0: the block index is built, else funcs is returned.
ChunksStart ==
    /\ pc = "chunks"
    /\ IF Cardinality(DOMAIN chunks) > 0
       THEN /\ blockFromAddr' = BuildBlockFromAddr(retBlocks, Len(retBlocks))
            /\ chunkTodo' = DOMAIN chunks
            /\ pc' = "chunkOuter"
            /\ UNCHANGED <<retFuncs>>
       ELSE /\ retFuncs' = funcs
            /\ pc' = "done"
            /\ UNCHANGED <<blockFromAddr, chunkTodo>>
    /\ UNCHANGED <<oracle, dbLocals, retBlocks, dfLocals, chunkAddr, funcTodo, err>>
    /\ UNCHANGED extVars

\* The window of the function at index idx of fs holds address a.
InWindowOf(fs, idx, a) ==
    /\ fs[idx].entry <= a
    /\ a < (IF idx < Len(fs) THEN fs[idx + 1].entry ELSE MaxUint32)

\* A plausible slip: the block is stored under the function's address.
InsertChunkFuncKey(fs, idx, blockAddr, b) ==
    [fs EXCEPT ![idx].blocks = MapPut(@, fs[idx].entry, b)]

\* A plausible slip: the chunk replaces the function's block map.
InsertChunkReplace(fs, idx, blockAddr, b) ==
    [fs EXCEPT ![idx].blocks = MapPut(EmptyMap, blockAddr, b)]

\* A plausible slip: a function that already holds a block from outside its
\* window takes no further one, so that the order of the range decides.
InsertChunkFirst(fs, idx, blockAddr, b) ==
    IF \E a \in DOMAIN fs[idx].blocks : ~InWindowOf(fs, idx, a)
    THEN fs
    ELSE [fs EXCEPT ![idx].blocks = MapPut(@, blockAddr, b)]

\* f.blocks[blockAddr] = block, for f the function at index idx.
InsertChunk(fs, idx, blockAddr, b) ==
    [fs EXCEPT ![idx].blocks = MapPut(@, blockAddr, b)]

\* One turn of for blockAddr, chunk := range l.chunks, in any order of the
\* keys, or the return of funcs when every key has been visited.
ChunkOuter ==
    /\ pc = "chunkOuter"
    /\ IF chunkTodo = {}
       THEN /\ retFuncs' = funcs
            /\ pc' = "done"
            /\ UNCHANGED <<chLocals, err>>
       ELSE \E blockAddr \in chunkTodo :
            IF blockAddr \notin DOMAIN blockFromAddr
            THEN /\ err' = "missing-block"
                 /\ retFuncs' = ErrorReturn(funcs)
                 /\ pc' = "done"
                 /\ UNCHANGED chLocals
            ELSE /\ chunkAddr' = blockAddr
                 /\ funcTodo' = chunks[blockAddr]
                 /\ chunkTodo' = chunkTodo \ {blockAddr}
                 /\ pc' = "chunkInner"
                 /\ UNCHANGED <<blockFromAddr, retFuncs, err>>
    /\ UNCHANGED <<oracle, dbLocals, retBlocks, dfLocals>>
    /\ UNCHANGED extVars

\* One turn of for funcAddr := range chunk, in any order of the keys.
ChunkInner ==
    /\ pc = "chunkInner"
    /\ IF funcTodo = {}
       THEN /\ pc' = "chunkOuter"
            /\ UNCHANGED <<funcs, funcTodo, retFuncs, err>>
       ELSE \E funcAddr \in funcTodo :
            IF funcAddr \notin DOMAIN funcFromAddr
            THEN /\ err' = "missing-function"
                 /\ retFuncs' = ErrorReturn(funcs)
                 /\ pc' = "done"
                 /\ UNCHANGED <<funcs, funcTodo>>
            ELSE /\ funcs' = InsertChunk(funcs, funcFromAddr[funcAddr],
                                         chunkAddr, blockFromAddr[chunkAddr])
                 /\ funcTodo' = funcTodo \ {funcAddr}
                 /\ UNCHANGED <<pc, retFuncs, err>>
    /\ UNCHANGED <<oracle, dbLocals, retBlocks, i, fj, f, funcFromAddr,
                   blockFromAddr, chunkTodo, chunkAddr>>
    /\ UNCHANGED extVars

\* ------------------------------------------------------- specification

Next ==
    \/ BlocksLoop
    \/ DecodeInstStep
    \/ FuncsLoop
    \/ AssignStep
    \/ ChunksStart
    \/ ChunkOuter
    \/ ChunkInner

Spec == Init /\ [][Next]_vars

\* decodeBlocks alone.
NextBlocks ==
    \/ BlocksLoop
    \/ DecodeInstStep

\* The runs of decodeBlocks on every section, the program running on as
\* long as it has a step to take.
SpecBlocks == InitSection /\ [][NextBlocks]_vars /\ WF_vars(NextBlocks)

\* The runs of liftCode over every chunks map, with functions and blocks
\* for the chunks to name.
SpecChunks == InitChunks /\ [][Next]_vars

\* ------------------------------------------------- main, newLifter, lift

\* Largest number of sections of the PE file.
MaxSections == 2

\* What parseJSON finds of an oracle file: no file (a warning, no error), a
\* file that parses, a file that does not.
FileStates == {"absent", "ok", "bad"}

\* The contents of the oracle files that parse.
FuncsFiles == {<<1>>, <<2>>}
BlocksFile == <<2, 1>>
ChunksFile == [ba \in {2} |-> {1}]

\* const codeMask = 0x00000020
codeMask == 32

\* Section characteristics: code, initialized data, and both flags.
Characteristics == {32, 64, 96}

\* A plausible slip: any flag makes a section executable.
isExecAny(s) == s.chars # 0

\* isExec: sect.Characteristics&codeMask != 0
isExec(s) == (s.chars \div codeMask) % 2 # 0

\* The section headers and the PE files pe.Open can parse; the optional
\* header is a 32-bit one, a 64-bit one, or absent.
SectionHeaders == [chars : Characteristics, rva : {0, 1}]
Bins ==
    [hdr : {"pe32", "pe32+", "absent"},
     base : {1, MaxUint32},
     sections : UNION {[1..n -> SectionHeaders] : n \in 0..MaxSections}]

\* The bytes sect.Data() can return.
SectionData == {FullImage, <<"ret">>, <<"nop", "ret", "ret">>}

\* A plausible slip: main goes on after newLifter has failed.
AfterParseIgnore(ok, next) == next

\* if err := parseJSON(...); err != nil { return nil, err }, and in main
\* log.Fatalf on the error of newLifter.
AfterParse(ok, next) == IF ok THEN next ELSE "exit"

\* A plausible slip: every optional header is taken for a 32-bit one.
IsHeader32Any(h) == TRUE

\* file.OptionalHeader.(*pe.OptionalHeader32)
IsHeader32(h) == h = "pe32"

\* A plausible slip: the file is closed on the normal return only.
DeferCloseMissing(st, e) == IF e = "nil" THEN "closed" ELSE st

\* defer file.Close(): the state of the file when lift returns e.
DeferClose(st, e) == "closed"

\* addr := base + rel
SectionAddr(base, rel) == AddrAdd(base, rel)

\* The functions fs with the blocks their block maps point to, bs being
\* the blocks of the call that built them.
Resolve(fs, bs) ==
    [ii \in 1..Len(fs) |->
        [entry |-> fs[ii].entry,
         blocks |-> [a \in DOMAIN fs[ii].blocks |-> bs[fs[ii].blocks[a]]]]]

\* A plausible slip: the functions of a section are added to the list.
SetAsmFuncsAppend(old, fs, bs) == old \o Resolve(fs, bs)

\* l.asmFuncs = funcs
SetAsmFuncs(old, fs, bs) == Resolve(fs, bs)

\* A return of lift with error e ("nil" for none), the deferred
\* file.Close() included; main then ends.
LiftReturn(e) ==
    /\ err' = e
    /\ peState' = DeferClose(peState, e)
    /\ pc' = "exit"

\* main has parsed its flags and calls newLifter.
InitLift ==
    /\ funcAddrs = <<>>
    /\ blockAddrs = <<>>
    /\ chunks = EmptyMap
    /\ start = 0
    /\ data = <<>>
    /\ pc = "parseFuncs"
    /\ j = 1
    /\ instAddr = 0
    /\ block = <<>>
    /\ blocks = <<>>
    /\ retBlocks = <<>>
    /\ i = 1
    /\ fj = 1
    /\ f = newFunc(0)
    /\ funcs = <<>>
    /\ funcFromAddr = EmptyMap
    /\ blockFromAddr = EmptyMap
    /\ chunkTodo = {}
    /\ chunkAddr = 0
    /\ funcTodo = {}
    /\ retFuncs = <<>>
    /\ err = "nil"
    /\ arg = 0
    /\ res = <<>>
    /\ InitNoLift

asmLocals == <<j, instAddr, block, blocks, retBlocks, i, fj, f, funcs,
               funcFromAddr, blockFromAddr, chunkTodo, chunkAddr, funcTodo,
               retFuncs>>

\* newLifter: parseJSON("funcs.json", &l.funcAddrs); sort.Sort(l.funcAddrs)
ParseFuncs ==
    /\ pc = "parseFuncs"
    /\ \E st \in FileStates : \E rf \in FuncsFiles :
          /\ files' = [files EXCEPT !.funcs = st]
          /\ funcAddrs' = IF st = "ok" THEN SortAddrs(rf) ELSE funcAddrs
          /\ err' = IF st = "bad" THEN "parse-error" ELSE err
          /\ pc' = AfterParse(st # "bad", "parseBlocks")
    /\ UNCHANGED <<blockAddrs, chunks, start, data, asmLocals, arg, res,
                   peState, bin, sect, dataRead, decoded, asmFuncs>>

\* newLifter: parseJSON("blocks.json", &l.blockAddrs); sort.Sort(l.blockAddrs)
ParseBlocks ==
    /\ pc = "parseBlocks"
    /\ \E st \in FileStates :
          /\ files' = [files EXCEPT !.blocks = st]
          /\ blockAddrs' = IF st = "ok" THEN SortAddrs(BlocksFile) ELSE blockAddrs
          /\ err' = IF st = "bad" THEN "parse-error" ELSE err
          /\ pc' = AfterParse(st # "bad", "parseChunks")
    /\ UNCHANGED <<funcAddrs, chunks, start, data, asmLocals, arg, res,
                   peState, bin, sect, dataRead, decoded, asmFuncs>>

\* newLifter: parseJSON("chunks.json", &l.chunks); main then calls lift.
ParseChunks ==
    /\ pc = "parseChunks"
    /\ \E st \in FileStates :
          /\ files' = [files EXCEPT !.chunks = st]
          /\ chunks' = IF st = "ok" THEN ChunksFile ELSE chunks
          /\ err' = IF st = "bad" THEN "parse-error" ELSE err
          /\ pc' = AfterParse(st # "bad", "open")
    /\ UNCHANGED <<funcAddrs, blockAddrs, start, data, asmLocals, arg, res,
                   peState, bin, sect, dataRead, decoded, asmFuncs>>

\* lift: pe.Open(l.binPath), and defer file.Close() when it succeeds.
OpenFile ==
    /\ pc = "open"
    /\ \/ /\ peState' = "open-failed"
          /\ err' = "open-error"
          /\ pc' = "exit"
          /\ UNCHANGED bin
       \/ /\ \E b \in Bins : bin' = b
          /\ peState' = "open"
          /\ pc' = "header"
          /\ UNCHANGED err
    /\ UNCHANGED <<oracle, asmLocals, arg, res, files, sect, dataRead,
                   decoded, asmFuncs>>

\* lift: the type assertion on the optional header.
CheckHeader ==
    /\ pc = "header"
    /\ IF IsHeader32(bin.hdr)
       THEN /\ pc' = "sections"
            /\ UNCHANGED <<err, peState>>
       ELSE LiftReturn("unsupported-arch")
    /\ UNCHANGED <<oracle, asmLocals, arg, res, files, bin, sect, dataRead,
                   decoded, asmFuncs>>

\* lift: one turn of for _, sect := range file.Sections up to the call of
\* decodeCodeSection, or the end of the loop.
SectionStep ==
    /\ pc = "sections"
    /\ IF sect > Len(bin.sections)
       THEN /\ pc' = "translate"
            /\ UNCHANGED <<start, data, asmLocals, err, peState, sect,
                           dataRead, decoded>>
       ELSE /\ dataRead' = Append(dataRead, sect)
            /\ \/ \* sect.Data() fails
                  /\ LiftReturn("read-error")
                  /\ UNCHANGED <<start, data, asmLocals, sect, decoded>>
               \/ \E d \in SectionData :
                  IF isExec(bin.sections[sect])
                  THEN /\ start' = SectionAddr(bin.base, bin.sections[sect].rva)
                       /\ data' = d
                       /\ decoded' = Append(decoded, sect)
                       /\ j' = 1
                       /\ instAddr' = 0
                       /\ block' = <<>>
                       /\ blocks' = <<>>
                       /\ retBlocks' = <<>>
                       /\ i' = 1
                       /\ fj' = 1
                       /\ f' = newFunc(0)
                       /\ funcs' = <<>>
                       /\ funcFromAddr' = EmptyMap
                       /\ blockFromAddr' = EmptyMap
                       /\ chunkTodo' = {}
                       /\ chunkAddr' = 0
                       /\ funcTodo' = {}
                       /\ retFuncs' = <<>>
                       /\ pc' = "decodeBlocks"
                       /\ UNCHANGED <<err, peState, sect>>
                  ELSE /\ sect' = sect + 1
                       /\ UNCHANGED <<start, data, asmLocals, err, peState,
                                      decoded, pc>>
    /\ UNCHANGED <<funcAddrs, blockAddrs, chunks, arg, res, files, bin, asmFuncs>>

\* decodeCodeSection returns to lift: l.asmFuncs = funcs and the next
\* section, or the error.
CodeSectionReturn ==
    /\ pc = "done"
    /\ IF err = "nil"
       THEN /\ asmFuncs' = SetAsmFuncs(asmFuncs, retFuncs, retBlocks)
            /\ sect' = sect + 1
            /\ pc' = "sections"
            /\ UNCHANGED <<err, peState>>
       ELSE /\ LiftReturn(err)
            /\ UNCHANGED <<asmFuncs, sect>>
    /\ UNCHANGED <<oracle, asmLocals, arg, res, files, bin, dataRead, decoded>>

\* A run-time panic in decodeBlocks unwinds lift: the deferred
\* file.Close() runs and the process ends.
PanicUnwind ==
    /\ pc = "panic"
    /\ peState' = DeferClose(peState, "panic")
    /\ pc' = "crash"
    /\ UNCHANGED <<oracle, asmLocals, err, arg, res, files, bin, sect,
                   dataRead, decoded, asmFuncs>>

\* lift: translate returns the module, and lift returns.
Translate ==
    /\ pc = "translate"
    /\ LiftReturn("nil")
    /\ UNCHANGED <<oracle, asmLocals, arg, res, files, bin, sect, dataRead,
                   decoded, asmFuncs>>

NextLift ==
    \/ ParseFuncs
    \/ ParseBlocks
    \/ ParseChunks
    \/ OpenFile
    \/ CheckHeader
    \/ SectionStep
    \/ BlocksLoop
    \/ DecodeInstStep
    \/ FuncsLoop
    \/ AssignStep
    \/ ChunksStart
    \/ ChunkOuter
    \/ ChunkInner
    \/ CodeSectionReturn
    \/ PanicUnwind
    \/ Translate

\* main on one binary: newLifter, then lift.
SpecLift == InitLift /\ [][NextLift]_vars

\* ------------------------------------------------ functions on their own

\* No lifter runs: the state of liftCode while a function is called on
\* its own.
InitIdle ==
    /\ funcAddrs = <<>>
    /\ blockAddrs = <<>>
    /\ chunks = EmptyMap
    /\ start = 0
    /\ data = <<>>
    /\ pc = "idle"
    /\ j = 1
    /\ instAddr = 0
    /\ block = <<>>
    /\ blocks = <<>>
    /\ retBlocks = <<>>
    /\ i = 1
    /\ fj = 1
    /\ f = newFunc(0)
    /\ funcs = <<>>
    /\ funcFromAddr = EmptyMap
    /\ blockFromAddr = EmptyMap
    /\ chunkTodo = {}
    /\ chunkAddr = 0
    /\ funcTodo = {}
    /\ retFuncs = <<>>
    /\ err = "nil"

asmVars == <<funcAddrs, blockAddrs, chunks, start, data, pc, j, instAddr, block,
             blocks, retBlocks, i, fj, f, funcs, funcFromAddr, blockFromAddr,
             chunkTodo, chunkAddr, funcTodo, retFuncs, err>>

\* addrSize, at the width of the addresses that are formatted and parsed.
addrSize == AddrBits

\* The addresses that are formatted and parsed.
TextAddr == 0..(2^addrSize - 1)

\* Strings are sequences of characters.
UpperHex == <<"0", "1", "2", "3", "4", "5", "6", "7", "8", "9",
              "A", "B", "C", "D", "E", "F">>
LowerHex == <<"0", "1", "2", "3", "4", "5", "6", "7", "8", "9",
              "a", "b", "c", "d", "e", "f">>

\* strings.HasPrefix
HasPrefix(s, prefix) ==
    Len(s) >= Len(prefix) /\ SubSeq(s, 1, Len(prefix)) = prefix

\* The verb %X of fmt: the digits of v in base 16, upper case, no padding.
RECURSIVE FmtX(_)
FmtX(v) ==
    IF v < 16 THEN <<UpperHex[v + 1]>>
    ELSE FmtX(v \div 16) \o <<UpperHex[(v % 16) + 1]>>

\* The flag 0 and a width of fmt: zeros on the left up to width characters.
RECURSIVE PadZero(_, _)
PadZero(s, width) == IF Len(s) >= width THEN s ELSE PadZero(<<"0">> \o s, width)

\* Width of the verb %08X.
fmtWidth == 8

\* A plausible slip: the format "%08X", without the prefix.
StringNoPrefix(v) == PadZero(FmtX(v), fmtWidth)

\* Addr.String: fmt.Sprintf("0x%08X", uint32(v))
String(v) == <<"0", "x">> \o PadZero(FmtX(v), fmtWidth)

\* The value of a character as a digit, 36 when it is none (strconv).
DigitVal(c) ==
    IF \E d \in 1..16 : UpperHex[d] = c
    THEN (CHOOSE d \in 1..16 : UpperHex[d] = c) - 1
    ELSE IF \E d \in 1..16 : LowerHex[d] = c
    THEN (CHOOSE d \in 1..16 : LowerHex[d] = c) - 1
    ELSE 36

\* The loop of strconv.ParseUint over the characters of s, n the value so
\* far: a syntax error for a character that is no digit of the base, a
\* range error for a value that does not fit bitSize bits.
RECURSIVE ParseDigits(_, _, _, _)
ParseDigits(s, base, bitSize, n) ==
    IF s = <<>> THEN [ok |-> TRUE, val |-> n]
    ELSE IF DigitVal(s[1]) >= base THEN [ok |-> FALSE, val |-> 0]
    ELSE IF n * base + DigitVal(s[1]) > 2^bitSize - 1 THEN [ok |-> FALSE, val |-> 0]
    ELSE ParseDigits(Tail(s), base, bitSize, n * base + DigitVal(s[1]))

\* strconv.ParseUint(s, base, bitSize), for base 10 or 16.
ParseUint(s, base, bitSize) ==
    IF s = <<>> THEN [ok |-> FALSE, val |-> 0]
    ELSE ParseDigits(s, base, bitSize, 0)

\* parseUint32: base 16 after a prefix 0x or 0X, base 10 otherwise.
parseUint32(s) ==
    IF HasPrefix(s, <<"0", "x">>) \/ HasPrefix(s, <<"0", "X">>)
    THEN ParseUint(SubSeq(s, 3, Len(s)), 16, addrSize)
    ELSE ParseUint(s, 10, addrSize)

\* Addr.Set
Set(s) == parseUint32(s)

\* The JSON string token of a text with nothing to escape, as the decoder
\* of encoding/json hands it to UnmarshalJSON.
Quote(s) == <<"\"">> \o s \o <<"\"">>

\* strconv.Unquote of a double-quoted string without escapes.
Unquote(b) ==
    IF /\ Len(b) >= 2
       /\ b[1] = "\""
       /\ b[Len(b)] = "\""
       /\ \A k \in 2..(Len(b) - 1) : b[k] \notin {"\"", "\\"}
    THEN [ok |-> TRUE, val |-> SubSeq(b, 2, Len(b) - 1)]
    ELSE [ok |-> FALSE, val |-> <<>>]

\* Addr.UnmarshalJSON
UnmarshalJSON(b) ==
    LET q == Unquote(b) IN
    IF ~q.ok THEN [ok |-> FALSE, val |-> 0]
    ELSE IF ~HasPrefix(q.val, <<"0", "x">>) THEN [ok |-> FALSE, val |-> 0]
    ELSE ParseUint(SubSeq(q.val, 3, Len(q.val)), 16, addrSize)

InitText ==
    /\ arg \in TextAddr
    /\ res = <<>>
    /\ InitIdle
    /\ InitNoLift

\* An address is formatted with String, and the text is parsed with Set
\* and, as a JSON string, with UnmarshalJSON.
FormatParse ==
    /\ res = <<>>
    /\ arg \in TextAddr
    /\ res' = <<[text |-> String(arg),
                 set |-> Set(String(arg)),
                 json |-> UnmarshalJSON(Quote(String(arg)))]>>
    /\ UNCHANGED <<asmVars, liftVars, arg>>

NextText == FormatParse

\* Every address formatted and parsed back.
SpecText == InitText /\ [][NextText]_vars

\* Opcodes of x86asm that isTerm does not name: CALL, and a sample of the
\* others, far and system control transfers among them.
OtherOps ==
    {"CALL", "LCALL", "LJMP", "LRET", "IRET", "INT", "SYSCALL", "SYSEXIT",
     "HLT", "UD2", "XBEGIN", "NOP", "MOV", "PUSH", "POP", "ADD", "CMP", "LEA"}

\* x86asm.Op
Ops == TermOps \cup OtherOps

\* Instructions as isTerm receives them: an opcode, and with it an address,
\* a length and an operand.
Insts ==
    [op : Ops, addr : Addr, len : 1..2, arg : {"none", "rel", "reg"}]

InitTerm ==
    /\ arg \in Insts
    /\ res = <<>>
    /\ InitIdle
    /\ InitNoLift

\* A call of isTerm.
IsTermCall ==
    /\ res = <<>>
    /\ arg \in Insts
    /\ res' = <<isTerm(arg)>>
    /\ UNCHANGED <<asmVars, liftVars, arg>>

NextTerm == IsTermCall

\* isTerm called on every instruction.
SpecTerm == InitTerm /\ [][NextTerm]_vars

\* ---------------------------------------------------- claims: decodeBlocks

\* decodeBlocks has returned its blocks without an error.
DecodeBlocksOk ==
    \/ pc \in {"decodeFuncs", "assign", "chunks", "chunkOuter", "chunkInner"}
    \/ pc = "done" /\ err # "decode-failure"

\* The last instruction of a block.
LastInst(b) == b[Len(b)]

\* C1: every block returned by a successful decodeBlocks starts at the
\* block address it was built for, also after a block whose last
\* instruction ends past the next block address.
C1_FirstInstAtBlockAddr ==
    DecodeBlocksOk =>
        \A k \in 1..Len(retBlocks) :
            /\ k <= Len(blockAddrs)
            /\ Len(retBlocks[k]) > 0
            /\ retBlocks[k][1].addr = blockAddrs[k]

\* C1 witness: the last instruction of a block starts before the next
\* block address and ends past it, and the next block was returned all
\* the same.
C1_Witness ==
    /\ DecodeBlocksOk
    /\ \E k \in 1..(Len(retBlocks) - 1) :
          /\ LastInst(retBlocks[k]).addr < blockAddrs[k + 1]
          /\ LastInst(retBlocks[k]).addr + LastInst(retBlocks[k]).len > blockAddrs[k + 1]
          /\ retBlocks[k + 1][1].addr = blockAddrs[k + 1]

\* C2: inside a returned block every instruction after the first starts at
\* the address of the one before plus its length (in Addr arithmetic).
C2_InstsConsecutive ==
    DecodeBlocksOk =>
        \A k \in 1..Len(retBlocks) :
            \A n \in 2..Len(retBlocks[k]) :
                retBlocks[k][n].addr =
                    (retBlocks[k][n - 1].addr + retBlocks[k][n - 1].len) % (MaxUint32 + 1)

\* C2 witness: a returned block of several instructions, the first of them
\* two bytes long.
C2_Witness ==
    /\ DecodeBlocksOk
    /\ \E k \in 1..Len(retBlocks) :
          /\ Len(retBlocks[k]) >= 2
          /\ retBlocks[k][1].len = 2

\* Whether instruction n of returned block k meets a condition that ends
\* the block: a terminator, or an end address at or past the next block
\* address.
StopsAt(k, n) ==
    LET inst == retBlocks[k][n] IN
    \/ inst.op \in TermOps
    \/ /\ k < Len(blockAddrs)
       /\ (inst.addr + inst.len) % (MaxUint32 + 1) >= blockAddrs[k + 1]

C4_OneBlockPerAddr ==
    DecodeBlocksOk =>
        /\ Len(retBlocks) = Len(blockAddrs)
        /\ \A k \in 1..Len(retBlocks) : Len(retBlocks[k]) >= 1
        /\ \A k \in 1..Len(retBlocks) : \A l \in k..Len(retBlocks) :
               retBlocks[k][1].addr <= retBlocks[l][1].addr

\* C4 witness: decodeBlocks returned two blocks, one of them closed by
\* the next block address.
C4_Witness ==
    /\ DecodeBlocksOk
    /\ Len(retBlocks) >= 2
    /\ \E k \in 1..Len(retBlocks) : LastInst(retBlocks[k]).op \notin TermOps

\* ----------------------------------------------------- claims: decodeFuncs

\* decodeFuncs has returned its functions without an error.
DecodeFuncsOk == pc = "done" /\ err = "nil"

\* The half-open window of the function of index ii holds address a.
InWindow(ii, a) ==
    /\ funcAddrs[ii] <= a
    /\ a < (IF ii < Len(funcAddrs) THEN funcAddrs[ii + 1] ELSE MaxUint32)

\* The block of index k is stored in the block map m.
Stored(m, k) == \E a \in DOMAIN m : m[a] = k

\* No later block has the entry of the block of index k.
LastWithEntry(k) ==
    \A l \in (k + 1)..Len(retBlocks) : Entry(retBlocks[l]) # Entry(retBlocks[k])

\* C5: when the contiguous phase has succeeded, and before chunks are
\* applied, the entry of a block is a key of function i's block map if and
\* only if it lies in the window [funcAddrs[i], funcAddrs[i+1]) (up to
\* MaxUint32 for the last function); the block stored under a key is the
\* block with that entry (the last one, should two blocks share it); no
\* entry is a key of two functions.
C5_ContiguousWindow ==
    pc = "chunks" =>
        /\ Len(funcs) = Len(funcAddrs)
        /\ \A ii \in 1..Len(funcs) :
              /\ \A k \in 1..Len(retBlocks) :
                    /\ Entry(retBlocks[k]) \in DOMAIN funcs[ii].blocks
                          <=> InWindow(ii, Entry(retBlocks[k]))
                    /\ Stored(funcs[ii].blocks, k)
                          <=> (InWindow(ii, Entry(retBlocks[k])) /\ LastWithEntry(k))
              /\ \A a \in DOMAIN funcs[ii].blocks :
                    /\ funcs[ii].blocks[a] \in 1..Len(retBlocks)
                    /\ Entry(retBlocks[funcs[ii].blocks[a]]) = a
                    /\ funcs[ii].entry <= a
                    /\ InWindow(ii, a)
        /\ \A ii \in 1..Len(funcs) : \A i2 \in 1..Len(funcs) :
              ii # i2 => (DOMAIN funcs[ii].blocks) \cap (DOMAIN funcs[i2].blocks) = {}

\* C5 witness: the contiguous phase has filled two functions, and a block
\* at the largest address is left to no function.
C5_Witness ==
    /\ pc = "chunks"
    /\ Len(funcs) >= 2
    /\ \A ii \in 1..Len(funcs) : DOMAIN funcs[ii].blocks # {}
    /\ \E k \in 1..Len(retBlocks) : Entry(retBlocks[k]) = MaxUint32

\* C6: after a successful decodeFuncs, for fa in chunks[ba], the returned
\* function with entry fa (the one funcFromAddr resolves: the last of that
\* entry) holds under key ba a block whose entry is ba.
C6_ChunksApplied ==
    DecodeFuncsOk =>
        \A ba \in DOMAIN chunks : \A fa \in chunks[ba] :
            \E ii \in 1..Len(retFuncs) :
                /\ retFuncs[ii].entry = fa
                /\ \A l \in (ii + 1)..Len(retFuncs) : retFuncs[l].entry # fa
                /\ ba \in DOMAIN retFuncs[ii].blocks
                /\ retFuncs[ii].blocks[ba] \in 1..Len(retBlocks)
                /\ Entry(retBlocks[retFuncs[ii].blocks[ba]]) = ba

\* C6 witness: decodeFuncs succeeded with a chunk that gives a function a
\* block from outside its window.
C6_Witness ==
    /\ DecodeFuncsOk
    /\ \E ba \in DOMAIN chunks : \E fa \in chunks[ba] :
          \E ii \in 1..Len(retFuncs) :
              /\ retFuncs[ii].entry = fa
              /\ ~InWindow(ii, ba)
              /\ ba \in DOMAIN retFuncs[ii].blocks

\* Every entry of the block maps of fs is an entry of the block maps of gs,
\* with the same block.
Extends(gs, fs) ==
    /\ Len(gs) = Len(fs)
    /\ \A ii \in 1..Len(fs) :
          /\ gs[ii].entry = fs[ii].entry
          /\ \A a \in DOMAIN fs[ii].blocks :
                /\ a \in DOMAIN gs[ii].blocks
                /\ gs[ii].blocks[a] = fs[ii].blocks[a]

\* A step taken in the chunk phase keeps every entry of every block map,
\* and so do the functions it returns.
ChunkStepAdds ==
    pc \in {"chunks", "chunkOuter", "chunkInner"} =>
        /\ Extends(funcs', funcs)
        /\ (pc' = "done" /\ err' = "nil") => Extends(retFuncs', funcs)

\* C7: the chunk phase only adds: no step of it removes or changes an
\* entry of a function's block map, and the functions it returns hold
\* every entry the contiguous phase made.
C7_ChunkPhaseAdditive == [][ChunkStepAdds]_vars

\* C7 witness: decodeFuncs succeeded, and a block the contiguous phase
\* gave to one function is claimed by chunks for another function; both
\* hold it.
C7_Witness ==
    /\ DecodeFuncsOk
    /\ \E ba \in DOMAIN chunks : \E fa \in chunks[ba] :
          \E ii \in 1..Len(retFuncs) : \E i2 \in 1..Len(retFuncs) :
              /\ InWindow(ii, ba)
              /\ retFuncs[ii].entry # fa
              /\ retFuncs[i2].entry = fa
              /\ ba \in DOMAIN retFuncs[ii].blocks
              /\ ba \in DOMAIN retFuncs[i2].blocks

\* The block addresses of chunks for which no block was decoded.
MissingBlocks ==
    {ba \in DOMAIN chunks : \A k \in 1..Len(retBlocks) : Entry(retBlocks[k]) # ba}

\* The function addresses named in chunks that are not in funcAddrs.
MissingFuncs ==
    {fa \in UNION {chunks[ba] : ba \in DOMAIN chunks} :
        \A ii \in 1..Len(funcAddrs) : funcAddrs[ii] # fa}

\* C8: when chunks names a block address with no decoded block or a
\* function address not in funcAddrs, decodeFuncs returns an error and no
\* functions; once the contiguous phase has succeeded the error is
\* missing-block or missing-function, missing-block only for a block
\* address with no block and missing-function only for a function address
\* not in funcAddrs.
C8_ChunkErrors ==
    (pc = "done" /\ err # "decode-failure" /\ (MissingBlocks # {} \/ MissingFuncs # {})) =>
        /\ err # "nil"
        /\ retFuncs = <<>>
        /\ err # "block-before-function-start" =>
              /\ err \in {"missing-block", "missing-function"}
              /\ err = "missing-block" => MissingBlocks # {}
              /\ err = "missing-function" => MissingFuncs # {}
              /\ MissingFuncs = {} => err = "missing-block"
              /\ MissingBlocks = {} => err = "missing-function"

\* C8 witness: decodeFuncs built a function, met in chunks a function
\* address that is not in funcAddrs, and returned the error.
C8_Witness ==
    /\ pc = "done"
    /\ err = "missing-function"
    /\ funcs # <<>>
    /\ MissingBlocks = {}

\* The block at the cursor lies below the end of the window of function i
\* and below its start.
BlockBelowStart ==
    /\ pc = "assign"
    /\ fj <= Len(retBlocks)
    /\ Entry(retBlocks[fj]) < (IF i < Len(funcAddrs) THEN funcAddrs[i + 1] ELSE MaxUint32)
    /\ Entry(retBlocks[fj]) < funcAddrs[i]

\* The step taken from such a state returns the error and stores the
\* block nowhere.
BlockBelowStartFails ==
    BlockBelowStart =>
        /\ pc' = "done"
        /\ err' = "block-before-function-start"
        /\ retFuncs' = <<>>
        /\ f' = f
        /\ funcs' = funcs
        /\ ~Stored(f'.blocks, fj)
        /\ \A ii \in 1..Len(funcs') : ~Stored(funcs'[ii].blocks, fj)

\* C9: in the contiguous phase a block at the cursor below the end of the
\* window and below its start makes decodeFuncs return the
\* block-before-function-start error and no functions; the block is given
\* to no function.
C9_BlockBeforeFuncStart == [][BlockBelowStartFails]_vars

\* C9 witness: decodeFuncs has returned the block-before-function-start
\* error for the block at the cursor.
C9_Witness ==
    /\ pc = "done"
    /\ err = "block-before-function-start"
    /\ fj <= Len(retBlocks)
    /\ Entry(retBlocks[fj]) < funcAddrs[i]

\* C10: a successful decodeFuncs returns one function per function
\* address, each with that address as its entry, in ascending order of
\* entry.
C10_OneFuncPerAddr ==
    DecodeFuncsOk =>
        /\ Len(retFuncs) = Len(funcAddrs)
        /\ \A ii \in 1..Len(retFuncs) : retFuncs[ii].entry = funcAddrs[ii]
        /\ \A ii \in 1..Len(retFuncs) : \A l \in ii..Len(retFuncs) :
               retFuncs[ii].entry <= retFuncs[l].entry

\* C10 witness: decodeFuncs returned two functions of different entries.
C10_Witness ==
    /\ DecodeFuncsOk
    /\ Len(retFuncs) >= 2
    /\ retFuncs[1].entry # retFuncs[2].entry

\* The address list s is strictly ascending.
StrictlyAscending(s) == \A k \in 1..(Len(s) - 1) : s[k] < s[k + 1]

\* Every function address is a block address.
FuncsAreBlocks ==
    \A ii \in 1..Len(funcAddrs) : \E k \in 1..Len(blockAddrs) :
        blockAddrs[k] = funcAddrs[ii]

\* C11: with strictly ascending function and block addresses, every
\* function address a block address, every function returned by a
\* successful decodeFuncs has a non-empty block map that holds the
\* function's own entry as a key, whatever the function address.
C11_FuncHoldsEntryBlock ==
    (DecodeFuncsOk /\ StrictlyAscending(funcAddrs) /\ StrictlyAscending(blockAddrs)
        /\ FuncsAreBlocks) =>
        \A ii \in 1..Len(retFuncs) :
            /\ DOMAIN retFuncs[ii].blocks # {}
            /\ retFuncs[ii].entry \in DOMAIN retFuncs[ii].blocks

\* ------------------------------------------------------ claims: determinism

\* The block decoded from address a for block address index jj, as a
\* function of the section alone; <<>> when decoding does not succeed.
RECURSIVE BlockFrom(_, _, _)
BlockFrom(a, jj, acc) ==
    LET offset == AddrSub(a, start) IN
    IF offset > Len(data) THEN <<>>
    ELSE LET r == decodeInst(a, SubSeq(data, offset + 1, Len(data))) IN
         IF ~r.ok THEN <<>>
         ELSE LET next == NextInstAddr(a, r.inst)
                  b == Append(acc, r.inst)
              IN IF EndOfBlock(r.inst, next, jj) THEN b ELSE BlockFrom(next, jj, b)

\* The block list a run yields, as a function of blockAddrs and the section.
ExpectedBlocks == [k \in 1..Len(blockAddrs) |-> BlockFrom(blockAddrs[k], k, <<>>)]

\* Every block address decodes.
ExpectedBlocksOk == \A k \in 1..Len(blockAddrs) : ExpectedBlocks[k] # <<>>

\* The index of the last block of entry a, of the last function of entry a.
LastBlockAt(a) ==
    CHOOSE k \in 1..Len(blockAddrs) :
        /\ blockAddrs[k] = a
        /\ \A l \in (k + 1)..Len(blockAddrs) : blockAddrs[l] # a
LastFuncAt(a) ==
    CHOOSE ii \in 1..Len(funcAddrs) :
        /\ funcAddrs[ii] = a
        /\ \A l \in (ii + 1)..Len(funcAddrs) : funcAddrs[l] # a

\* The keys of the block map of function ii, as a function of the oracle:
\* the block addresses of its window and the block addresses chunks gives it.
ExpectedKeys(ii) ==
    {blockAddrs[k] : k \in {l \in 1..Len(blockAddrs) : InWindow(ii, blockAddrs[l])}}
    \cup {ba \in DOMAIN chunks : funcAddrs[ii] \in chunks[ba] /\ LastFuncAt(funcAddrs[ii]) = ii}

\* The functions a successful run yields, as a function of the oracle.
ExpectedFuncs ==
    [ii \in 1..Len(funcAddrs) |->
        [entry |-> funcAddrs[ii],
         blocks |-> [a \in ExpectedKeys(ii) |-> LastBlockAt(a)]]]

\* Whether decodeFuncs succeeds, as a function of the oracle: no block lies
\* below the first function, and chunks names only block addresses of
\* blockAddrs and function addresses of funcAddrs.
ExpectedFuncsOk ==
    /\ Len(funcAddrs) > 0 => \A k \in 1..Len(blockAddrs) : blockAddrs[k] >= funcAddrs[1]
    /\ \A ba \in DOMAIN chunks :
          /\ \E k \in 1..Len(blockAddrs) : blockAddrs[k] = ba
          /\ \A fa \in chunks[ba] : \E ii \in 1..Len(funcAddrs) : funcAddrs[ii] = fa

\* C12: the result of decodeBlocks followed by decodeFuncs is a function of
\* the section bytes and the oracle: the block list, the instruction
\* addresses, whether the run succeeds and the block addresses of every
\* function are the same in every run, whatever the order in which chunks
\* and its inner sets are ranged over.
C12_AssemblyDeterministic ==
    pc = "done" =>
        IF ~ExpectedBlocksOk
        THEN err = "decode-failure" /\ retBlocks = <<>> /\ retFuncs = <<>>
        ELSE /\ retBlocks = ExpectedBlocks
             /\ (err = "nil") <=> ExpectedFuncsOk
             /\ retFuncs = IF ExpectedFuncsOk THEN ExpectedFuncs ELSE <<>>

\* C12 witness: a successful run whose chunks map has two block addresses,
\* one of them given to two functions, so that both ranges had a choice of
\* order.
C12_Witness ==
    /\ DecodeFuncsOk
    /\ Cardinality(DOMAIN chunks) >= 2
    /\ \E ba \in DOMAIN chunks : Cardinality(chunks[ba]) >= 2
    /\ \E ii \in 1..Len(retFuncs) :
          Cardinality({ba \in DOMAIN chunks : retFuncs[ii].entry \in chunks[ba]}) >= 2

\* ---------------------------------------------------- claims: end of a run

\* C13: for any oracle and any section, block addresses below the section
\* start or past its last byte included, a run ends by returning (with or
\* without an error value) and in no other way: it never stops in an
\* out-of-range abort while indexing the section bytes.
C13_EndsByReturn ==
    (pc = "done" \/ ENABLED Next) /\ pc # "panic"

\* ----------------------------------- claims: block before function start

\* C20: with ascending function addresses and block entries, decodeFuncs
\* returns the block-before-function-start error if and only if funcAddrs
\* is non-empty and the smallest block entry lies below funcAddrs[0]; the
\* error is only raised while the first function is filled; with an empty
\* funcAddrs the contiguous phase raises no error and assigns no block.
C20_BeforeStartOnlyFirst ==
    /\ pc = "done" =>
          (err = "block-before-function-start" <=>
              /\ Len(funcAddrs) > 0
              /\ \E k \in 1..Len(retBlocks) : Entry(retBlocks[k]) < funcAddrs[1])
    /\ err = "block-before-function-start" => i = 1
    /\ (Len(funcAddrs) = 0 /\ DecodeBlocksOk) =>
          /\ err # "block-before-function-start"
          /\ funcs = <<>>
          /\ f.blocks = EmptyMap
          /\ retFuncs = <<>>
          /\ (pc = "done" /\ chunks = EmptyMap) => err = "nil"

\* C20 witness: with two function addresses and a block in the window of
\* the second, decodeFuncs returned the error for a block below the first
\* function address, while filling the first function.
C20_Witness ==
    /\ pc = "done"
    /\ err = "block-before-function-start"
    /\ Len(funcAddrs) >= 2
    /\ i = 1
    /\ Entry(retBlocks[1]) < funcAddrs[1]
    /\ \E k \in 1..Len(retBlocks) : Entry(retBlocks[k]) >= funcAddrs[2]

\* ------------------------------------------------------- claims: isTerm

\* The instruction is a loop, a conditional jump, JMP or RET.
IsListedTerminator(inst) ==
    \/ inst.op \in {"LOOP", "LOOPE", "LOOPNE"}
    \/ inst.op \in {"JA", "JAE", "JB", "JBE", "JCXZ", "JE", "JECXZ", "JG",
                    "JGE", "JL", "JLE", "JNE", "JNO", "JNP", "JNS", "JO",
                    "JP", "JRCXZ", "JS"}
    \/ inst.op = "JMP"
    \/ inst.op = "RET"

\* C19: isTerm answers true exactly for LOOP, LOOPE, LOOPNE, the nineteen
\* conditional jumps, JMP and RET, and false for every other opcode, CALL
\* included; the answer depends on the opcode alone.
C19_IsTermExactly ==
    res # <<>> =>
        /\ res[1] = IsListedTerminator(arg)
        /\ arg.op = "CALL" => res[1] = FALSE
        /\ \A other \in Insts : other.op = arg.op => isTerm(other) = res[1]

\* C19 witness: isTerm has answered false for a CALL.
C19_Witness ==
    /\ res = <<FALSE>>
    /\ arg \in Insts
    /\ arg.op = "CALL"

\* ----------------------------------------------- claims: address text

\* The set of the elements of a sequence.
Range(s) == {s[k] : k \in 1..Len(s)}

\* C18: for every address a, String gives "0x" followed by eight
\* zero-padded upper-case hexadecimal digits, and parsing that text yields
\* a, with Set (parseUint32) and with the strict UnmarshalJSON alike.
C18_TextRoundTrip ==
    res # <<>> =>
        /\ Len(res[1].text) = 10
        /\ SubSeq(res[1].text, 1, 2) = <<"0", "x">>
        /\ \A k \in 3..10 : res[1].text[k] \in Range(UpperHex)
        /\ res[1].set = [ok |-> TRUE, val |-> arg]
        /\ res[1].json = [ok |-> TRUE, val |-> arg]

\* C18 witness: the largest address was formatted with zeros on the left
\* and letters as digits, and parsed back both ways.
C18_Witness ==
    /\ res # <<>>
    /\ arg = 2^addrSize - 1
    /\ res[1].text[3] = "0"
    /\ res[1].text[10] = "F"
    /\ res[1].set.val = arg
    /\ res[1].json.val = arg

\* --------------------------------------------------------- claims: lift

\* decodeFuncs is running or has filled a function.
AssemblingFuncs ==
    \/ pc \in {"decodeFuncs", "assign", "chunks", "chunkOuter", "chunkInner"}
    \/ funcs # <<>>
    \/ retFuncs # <<>>

\* Something of the PE file has been used: it was opened, a section was
\* read, or an instruction was decoded.
PEUsed ==
    \/ peState # "unopened"
    \/ bin # NoBin
    \/ dataRead # <<>>
    \/ decoded # <<>>
    \/ block # <<>>
    \/ blocks # <<>>

\* C14: the oracle files are loaded in the order funcs, blocks, chunks,
\* all three before the PE file is opened; for a code section decodeBlocks
\* has returned every block before decodeFuncs fills a function; an oracle
\* file that does not parse ends the run before the PE file is opened or
\* an instruction is decoded.
C14_LiftOrder ==
    /\ files.blocks # "unread" => files.funcs \in {"absent", "ok"}
    /\ files.chunks # "unread" => files.blocks \in {"absent", "ok"}
    /\ PEUsed => \A n \in {"funcs", "blocks", "chunks"} : files[n] \in {"absent", "ok"}
    /\ pc \in {"decodeBlocks", "decodeInst"} =>
          (funcs = <<>> /\ retFuncs = <<>> /\ f.blocks = EmptyMap /\ fj = 1)
    /\ AssemblingFuncs =>
          (retBlocks = blocks /\ Len(retBlocks) = Len(blockAddrs))
    /\ (\E n \in {"funcs", "blocks", "chunks"} : files[n] = "bad") =>
          (pc = "exit" /\ err = "parse-error" /\ ~PEUsed)
    /\ err = "parse-error" => (pc = "exit" /\ ~PEUsed)

\* C14 witness: with all three oracle files parsed, lift opened the PE
\* file, decoded the blocks of a code section, assembled a function that
\* holds a block, and returned.
C14_Witness ==
    /\ pc = "exit"
    /\ err = "nil"
    /\ \A n \in {"funcs", "blocks", "chunks"} : files[n] = "ok"
    /\ decoded # <<>>
    /\ Len(retBlocks) = 2
    /\ \E ii \in 1..Len(asmFuncs) : DOMAIN asmFuncs[ii].blocks # {}

\* C15: when the optional header of the PE file is not a 32-bit one, lift
\* returns the unsupported-architecture error before the data of any
\* section is read or decoded, and no function list is produced.
C15_Unsupported64 ==
    /\ (peState \in {"open", "closed"} /\ bin.hdr # "pe32") =>
          /\ pc = "header" \/ (pc = "exit" /\ err = "unsupported-arch")
          /\ dataRead = <<>>
          /\ decoded = <<>>
          /\ block = <<>> /\ blocks = <<>> /\ retBlocks = <<>>
          /\ funcs = <<>> /\ retFuncs = <<>> /\ asmFuncs = <<>>
    /\ err = "unsupported-arch" => (peState = "closed" /\ bin.hdr # "pe32")

\* C15 witness: lift has returned the unsupported-architecture error for
\* a 64-bit PE file that has a code section, with block addresses loaded.
C15_Witness ==
    /\ pc = "exit"
    /\ err = "unsupported-arch"
    /\ bin.hdr = "pe32+"
    /\ blockAddrs # <<>>
    /\ \E k \in 1..Len(bin.sections) : bin.sections[k].chars = codeMask

\* C16: once lift has opened the PE file, the file is closed when lift is
\* left, whatever the exit: the normal return, the unsupported
\* architecture, a section that cannot be read, a decoding failure, a
\* function assembly failure.
C16_FileClosed ==
    /\ pc \in {"exit", "crash"} => peState \in {"unopened", "open-failed", "closed"}
    /\ (pc = "exit" /\ err \in {"nil", "unsupported-arch", "read-error",
                                 "decode-failure", "block-before-function-start",
                                 "missing-block", "missing-function"}) =>
          peState = "closed"
    /\ peState = "closed" => pc \in {"exit", "crash"}

\* C16 witness: lift has read two sections and returned a function
\* assembly failure from the second, and the file is closed.
C16_Witness ==
    /\ pc = "exit"
    /\ err \in {"block-before-function-start", "missing-block", "missing-function"}
    /\ dataRead = <<1, 2>>
    /\ decoded = <<2>>
    /\ peState = "closed"

\* The characteristics of section k have the code flag 0x00000020.
HasCodeFlag(k) == bin.sections[k].chars \in {32, 96}

\* The data of section k was read without an error.
WasRead(k) ==
    /\ \E n \in 1..Len(dataRead) : dataRead[n] = k
    /\ ~(err = "read-error" /\ k = sect)

\* C17: a section whose data was read is passed to block decoding if and
\* only if its characteristics have the code flag 0x00000020, and the
\* section start that is passed is the image base plus the RVA of the
\* section.
C17_ExecSectionsDecoded ==
    /\ \A k \in 1..Len(bin.sections) :
          (\E n \in 1..Len(decoded) : decoded[n] = k) <=> (WasRead(k) /\ HasCodeFlag(k))
    /\ decoded # <<>> =>
          start = (bin.base + bin.sections[decoded[Len(decoded)]].rva) % (MaxUint32 + 1)

\* C17 witness: of two sections read, the first without the code flag and
\* the second with it among other flags and with a non-zero RVA, only the
\* second was decoded, and lift returned.
C17_Witness ==
    /\ pc = "exit"
    /\ err = "nil"
    /\ dataRead = <<1, 2>>
    /\ decoded = <<2>>
    /\ bin.sections[1].chars = 64
    /\ bin.sections[2].chars = 96
    /\ bin.sections[2].rva # 0
    /\ blockAddrs # <<>>

\* ------------------------------------------- claims: instruction starts

\* C21: with strictly ascending block addresses, every instruction of a
\* returned block that is not the last starts at an address in
\* [blockAddrs[j], blockAddrs[j+1]), so that no instruction start occurs in
\* two blocks, also when the last instruction of a block ends past the
\* next block address.
C21_InstStartsInWindow ==
    (DecodeBlocksOk /\ StrictlyAscending(blockAddrs)) =>
        /\ \A k \in 1..(Len(retBlocks) - 1) : \A n \in 1..Len(retBlocks[k]) :
              /\ blockAddrs[k] <= retBlocks[k][n].addr
              /\ retBlocks[k][n].addr < blockAddrs[k + 1]
        /\ \A k \in 1..Len(retBlocks) : \A l \in 1..Len(retBlocks) :
              k # l =>
                  \A n \in 1..Len(retBlocks[k]) : \A m \in 1..Len(retBlocks[l]) :
                      retBlocks[k][n].addr # retBlocks[l][m].addr

\* -------------------------------------------------- claims: termination

\* The offset of the cursor into the section bytes.
Offset == AddrSub(instAddr, start)

\* A step of the instruction loop that decodes an instruction moves the
\* cursor on by the length of the instruction, at least one byte; a step
\* taken with the cursor at the end of the section bytes returns the
\* decode-failure error for the address of the cursor, and no blocks.
DecodeStepAdvances ==
    pc = "decodeInst" =>
        /\ block' # block =>
              /\ AddrSub(instAddr', start) >= Offset + 1
              /\ AddrSub(instAddr', start) = Offset + block'[Len(block')].len
              /\ AddrSub(instAddr', start) <= Len(data)
        /\ Offset = Len(data) =>
              /\ pc' = "done"
              /\ err' = "decode-failure"
              /\ retBlocks' = <<>>
              /\ instAddr' = instAddr

\* C22: decodeBlocks terminates on every section: each instruction decoded
\* moves the cursor on by at least one byte, a block that reaches the end
\* of the section bytes without a terminator or the next block address
\* ends the call with the decode-failure error for the address of the
\* cursor and no blocks, and every call comes to an end.
C22_DecodeBlocksTerminates ==
    /\ [][DecodeStepAdvances]_vars
    /\ <>(pc \notin {"decodeBlocks", "decodeInst"})

\* C22 witness: after a first block was built, the second block ran into
\* the end of the section bytes, and decodeBlocks returned the error and
\* no blocks.
C22_Witness ==
    /\ pc = "done"
    /\ err = "decode-failure"
    /\ blocks # <<>>
    /\ block # <<>>
    /\ Offset = Len(data)
    /\ retBlocks = <<>>

\* ------------------------------------------------------ claims: asmFuncs

\* decodeCodeSection returns without an error: block decoding and function
\* assembly have both succeeded.
CodeSectionOk == pc = "done" /\ err = "nil"

\* The step that returns from a successful decodeCodeSection sets asmFuncs
\* to the functions of that call; every other step leaves asmFuncs alone.
AsmFuncsFrame ==
    /\ CodeSectionOk => asmFuncs' = Resolve(retFuncs, retBlocks)
    /\ ~CodeSectionOk => asmFuncs' = asmFuncs

\* After a lift without error that decoded a section, asmFuncs is the
\* function list of the last section decoded, and nothing else.
AsmFuncsOfLastSection ==
    (pc = "exit" /\ err = "nil" /\ decoded # <<>>) =>
        /\ start = SectionAddr(bin.base, bin.sections[decoded[Len(decoded)]].rva)
        /\ asmFuncs = Resolve(ExpectedFuncs, ExpectedBlocks)

\* C23: decodeCodeSection replaces asmFuncs only when block decoding and
\* function assembly have both succeeded and leaves it unchanged on an
\* error; each success overwrites the list, so that after a lift over
\* several code sections asmFuncs holds the functions of the last one
\* only.
C23_AsmFuncsOnSuccess ==
    /\ [][AsmFuncsFrame]_vars
    /\ []AsmFuncsOfLastSection

\* C23 witness: the first code section gave asmFuncs its functions, the
\* second failed to decode, and lift returned the error with the functions
\* of the first section still in asmFuncs.
C23_Witness ==
    /\ pc = "exit"
    /\ err = "decode-failure"
    /\ Len(decoded) = 2
    /\ asmFuncs # <<>>
    /\ \E ii \in 1..Len(asmFuncs) : DOMAIN asmFuncs[ii].blocks # {}

====
